---- MODULE Spec2Model ----
(***************************************************************************)
(* The tiered entry store of memory_api_phase1.py: FileBasedMemoryStore    *)
(* (records partitioned by level, three index files, expire-on-read) and   *)
(* MemoryEntry.is_expired.                                                 *)
(*                                                                         *)
(* Two specifications share the store variables:                           *)
(*   Spec      one caller; every store operation is one atomic action.     *)
(*   SpecConc  two callers; an operation is a sequence of steps, one per   *)
(*             file access or lock operation, interleaved freely.          *)
(***************************************************************************)
EXTENDS Integers, Sequences, FiniteSets, TLC

VARIABLES
    records,    \* level directories: <<level value, id>> -> {} (no file) or {document}
    sessions,   \* indices/sessions.json: session -> list of entry ids
    tags,       \* indices/tags.json:     tag -> list of entry ids
    sources,    \* indices/sources.json:  "type:id" -> list of entry ids
    now,        \* the wall clock read by datetime.now(), in seconds
    nputs,      \* number of save_entry calls started so far (bounded by MaxPuts)
    last,       \* the most recent completed call of the single caller: op, arguments, result
    lock,       \* FileBasedMemoryStore.lock: {} when free, {c} when caller c holds it
    pc,         \* per caller: the step it is at
    call,       \* per caller: the store operation it runs and its arguments
    stack,      \* per caller: the frames of load_entry / delete_entry below the running one
    loc,        \* per caller: locals of the running frame
    ret         \* per caller: {} until its operation returns, then {the result}

vars == <<records, sessions, tags, sources, now, nputs, last, lock, pc, call, stack, loc, ret>>

storeVars == <<records, sessions, tags, sources>>
threadVars == <<lock, pc, call, stack, loc, ret>>

----------------------------------------------------------------------------
(* Bounds of the model *)

\* save_entry calls per behaviour of Spec
MaxPuts == 2
\* last clock value; the clock starts at 0
MaxTime == 2
\* frames the interpreter allows before it raises RecursionError
\* (sys.getrecursionlimit(), 1000 in CPython; scaled down)
RecursionLimit == 4

\* the largest number of records a level holds when the unfiltered query is
\* examined: more than the recency bound of the query
MaxFiles == 22

----------------------------------------------------------------------------
(* Data model *)

\* Optional[int] ttl: None
NoTtl == -1

\* Optional[str] session: None
NoSession == "None"

\* class MemoryLevel(Enum), members in definition order (the order of `for level in MemoryLevel`)
MemoryLevel == <<"IMMEDIATE", "WORKING", "LONGTERM">>

\* MemoryLevel.<member>.value
LevelValue(m) ==
    CASE m = "IMMEDIATE" -> "immediate"
      [] m = "WORKING"   -> "working"
      [] m = "LONGTERM"  -> "longterm"

Levels == {MemoryLevel[i] : i \in 1..Len(MemoryLevel)}

\* MemoryLevel(value): the member with that value
LevelOf(v) == CHOOSE m \in Levels : LevelValue(m) = v

\* class SourceType(Enum)
SourceType == {"CHAT", "AGENT", "FUNCTION", "API"}

\* SourceType.<member>.value
SourceTypeValue(m) ==
    CASE m = "CHAT"     -> "chat"
      [] m = "AGENT"    -> "agent"
      [] m = "FUNCTION" -> "function"
      [] m = "API"      -> "api"

\* SourceType(value)
SourceTypeOf(v) == CHOOSE m \in SourceType : SourceTypeValue(m) = v

\* entry ids used by the callers
Ids == {"e1", "e2"}

\* _get_file_path(level, entry_id): base_path / level.value / "<id>.json"
get_file_path(level, id) == <<LevelValue(level), id>>

Paths == {get_file_path(l, i) : l \in Levels, i \in Ids}

\* a timestamp string as datetime.isoformat() writes it, plus a suffix: whole
\* seconds `t`, tenths of a second `frac` (isoformat leaves the fraction out
\* when it is zero), suffix "" (naive) or "Z"
Timestamp(t, frac, suffix) == [t |-> t, frac |-> frac, suffix |-> suffix]

\* timestamp.replace('Z', '+00:00')
ReplaceZ(ts) == [ts EXCEPT !.suffix = IF ts.suffix = "Z" THEN "+00:00" ELSE ts.suffix]

\* datetime.fromisoformat: the instant, and whether the datetime is timezone-aware
FromIsoFormat(ts) == [t |-> ts.t, frac |-> ts.frac, aware |-> ts.suffix # ""]

\* MemoryEntry.is_expired at clock value `clock`:
\*   raised = TRUE  : the comparison of the naive datetime.now() with an aware
\*                    datetime raises TypeError
\*   otherwise value is the returned boolean
is_expired(entry, clock) ==
    IF entry.ttl = NoTtl \/ entry.ttl = 0      \* `if not self.ttl`
    THEN [raised |-> FALSE, value |-> FALSE]
    ELSE LET created == FromIsoFormat(ReplaceZ(entry.timestamp))
         IN IF created.aware
            THEN [raised |-> TRUE, value |-> FALSE]
            ELSE [raised |-> FALSE,                    \* age in tenths of a second
                  value |-> 10 * (clock - created.t) - created.frac > 10 * entry.ttl]

\* the dict save_entry serialises (lines 129-141)
EntryDict(entry) ==
    [id |-> entry.id,
     timestamp |-> entry.timestamp,
     source |-> [type |-> SourceTypeValue(entry.source.type),
                 id |-> entry.source.id,
                 session |-> entry.source.session],
     level |-> LevelValue(entry.level),
     data |-> entry.data,
     ttl |-> entry.ttl,
     visibility |-> entry.visibility]

\* the MemoryEntry load_entry reconstructs from a stored document (lines 164-178)
EntryOfDict(d) ==
    [id |-> d.id,
     timestamp |-> d.timestamp,
     source |-> [type |-> SourceTypeOf(d.source.type),
                 id |-> d.source.id,
                 session |-> d.source.session],
     level |-> LevelOf(d.level),
     data |-> d.data,
     ttl |-> d.ttl,
     visibility |-> d.visibility]

\* source_key = f"{entry.source.type.value}:{entry.source.id}"
source_key(entry) == SourceTypeValue(entry.source.type) \o ":" \o entry.source.id

\* entry.data.get("meta_tags", [])
meta_tags(entry) == entry.data.meta_tags

\* `if entry.source.session:` -- None and the empty string are falsy
HasSession(entry) == entry.source.session \notin {NoSession, ""}

----------------------------------------------------------------------------
(* Index files *)

\* _load_index of a file that does not exist yet: {}
EmptyIndex == [k \in {} |-> <<>>]

\* index.get(key, [])
IndexGet(index, key) == IF key \in DOMAIN index THEN index[key] ELSE <<>>

\* `if key not in index: index[key] = []` then `index[key].append(id)`
IndexAppend(index, key, id) ==
    [k \in DOMAIN index \cup {key} |->
        IF k = key THEN Append(IndexGet(index, key), id) ELSE index[k]]

\* x in list
InList(list, x) == \E i \in 1..Len(list) : list[i] = x

\* ListRemove gone wrong: every occurrence of x goes
\* ([i for i in list if i != x] in place of list.remove(x))
ListRemoveAll(list, x) == SelectSeq(list, LAMBDA y : y # x)

\* list.remove(x) for a list that contains x: the first occurrence goes
ListRemove(list, x) ==
    LET i == CHOOSE i \in 1..Len(list) :
                 list[i] = x /\ \A j \in 1..(i - 1) : list[j] # x
    IN SubSeq(list, 1, i - 1) \o SubSeq(list, i + 1, Len(list))

\* one index edited for one key, in memory: `ok` is FALSE when list.remove raises
\* ValueError (the key is in the index and its list does not hold the id)
IndexEdit(index, key, id, action) ==
    IF action = "add"
    THEN [index |-> IndexAppend(index, key, id), ok |-> TRUE]
    ELSE IF key \notin DOMAIN index
         THEN [index |-> index, ok |-> TRUE]
         ELSE IF InList(index[key], id)
              THEN [index |-> [index EXCEPT ![key] = ListRemove(index[key], id)], ok |-> TRUE]
              ELSE [index |-> index, ok |-> FALSE]

\* the session block of _update_indices (lines 88-96), before _save_index
SessionEdit(index, entry, action) ==
    IF HasSession(entry)
    THEN IndexEdit(index, entry.source.session, entry.id, action)
    ELSE [index |-> index, ok |-> TRUE]

\* the tag loop of _update_indices (lines 100-109), before _save_index
RECURSIVE TagEdit(_, _, _, _)
TagEdit(index, taglist, id, action) ==
    IF taglist = <<>>
    THEN [index |-> index, ok |-> TRUE]
    ELSE LET one == IndexEdit(index, Head(taglist), id, action)
         IN IF one.ok THEN TagEdit(one.index, Tail(taglist), id, action)
                      ELSE [index |-> index, ok |-> FALSE]

\* the source block of _update_indices (lines 113-121), before _save_index
SourceEdit(index, entry, action) == IndexEdit(index, source_key(entry), entry.id, action)

----------------------------------------------------------------------------
(* The store as a value, and the operations run to completion by one caller *)

\* the files under base_path: the level directories and the three index files
Store(r, s, t, c) == [records |-> r, sessions |-> s, tags |-> t, sources |-> c]

\* file_path.exists()
Exists(st, level, id) == st.records[get_file_path(level, id)] # {}

\* a record file: the JSON document in it and its st_mtime
File(doc, mtime) == [doc |-> doc, mtime |-> mtime]

\* the document of a record file that exists
Document(st, level, id) ==
    (CHOOSE f \in st.records[get_file_path(level, id)] : TRUE).doc

\* file_path.stat().st_mtime of a record file that exists
Mtime(st, level, id) ==
    (CHOOSE f \in st.records[get_file_path(level, id)] : TRUE).mtime

\* the st_mtime a file written now gets: later than that of every file there is
WriteTime(recs) ==
    LET stamps == {f.mtime : f \in UNION {recs[p] : p \in DOMAIN recs}}
    IN IF stamps = {} THEN 1
       ELSE 1 + CHOOSE m \in stamps : \A n \in stamps : n <= m

\* file_path.unlink(), guarded by `if file_path.exists()` (lines 197-199)
Unlink(st, level, id) == [st EXCEPT !.records[get_file_path(level, id)] = {}]

\* the element of a set of one element. In Only({e(x) : x \in {v}}) the value v
\* is computed once and e reads it as the local variable x.
Only(S) == CHOOSE x \in S : TRUE

\* _update_indices(entry, action) with one caller. The three indices are loaded,
\* edited and saved in turn; a ValueError leaves the indices saved before it
\* as they are and the others untouched. ok = FALSE: the exception propagates.
update_indices(st, entry, action) ==
    LET s == SessionEdit(st.sessions, entry, action)
        st1 == [st EXCEPT !.sessions = s.index]
        t == TagEdit(st1.tags, meta_tags(entry), entry.id, action)
        st2 == [st1 EXCEPT !.tags = t.index]
        c == SourceEdit(st2.sources, entry, action)
        st3 == [st2 EXCEPT !.sources = c.index]
    IN IF ~s.ok THEN [st |-> st, ok |-> FALSE]
       ELSE IF ~t.ok THEN [st |-> st1, ok |-> FALSE]
       ELSE IF ~c.ok THEN [st |-> st2, ok |-> FALSE]
       ELSE [st |-> st3, ok |-> TRUE]

\* save_entry(entry): the record file is written, then the indices are updated
save_entry(st, entry) ==
    LET written == [st EXCEPT !.records[get_file_path(entry.level, entry.id)] =
                                  {File(EntryDict(entry), WriteTime(st.records))}]
        u == update_indices(written, entry, "add")
    IN [st |-> u.st, ret |-> u.ok]

\* load_entry and delete_entry call each other (lines 182 and 193). `depth` is
\* the number of frames in use, this one included; a call that would need
\* frame RecursionLimit + 1 raises RecursionError in the caller, whose
\* `except Exception` turns it into the caller's failure value.
RECURSIVE load_entry(_, _, _, _, _), delete_entry(_, _, _, _, _)

\* load_entry(level, entry_id): ret is {} for None, {entry} otherwise
load_entry(st, level, id, clock, depth) ==
    IF ~Exists(st, level, id)
    THEN [st |-> st, ret |-> {}]
    ELSE LET entry == EntryOfDict(Document(st, level, id))
             exp == is_expired(entry, clock)
         IN IF exp.raised
            THEN [st |-> st, ret |-> {}]                     \* TypeError, caught
            ELSE IF exp.value
                 THEN IF depth >= RecursionLimit
                      THEN [st |-> st, ret |-> {}]           \* RecursionError, caught
                      ELSE [st |-> delete_entry(st, level, id, clock, depth + 1).st,
                            ret |-> {}]
                 ELSE [st |-> st, ret |-> {entry}]

\* delete_entry gone wrong: file_path.unlink() without the exists() test of
\* line 198, so that a missing file raises FileNotFoundError
delete_entry_unguarded(st, level, id, clock, depth) ==
    IF depth >= RecursionLimit
    THEN [st |-> st, ret |-> FALSE]
    ELSE LET loaded == load_entry(st, level, id, clock, depth + 1)
             u == IF loaded.ret # {}
                  THEN update_indices(loaded.st, CHOOSE e \in loaded.ret : TRUE, "remove")
                  ELSE [st |-> loaded.st, ok |-> TRUE]
         IN IF ~u.ok
            THEN [st |-> u.st, ret |-> FALSE]
            ELSE IF Exists(u.st, level, id)
                 THEN [st |-> Unlink(u.st, level, id), ret |-> TRUE]
                 ELSE [st |-> u.st, ret |-> FALSE]

\* delete_entry(level, entry_id)
delete_entry(st, level, id, clock, depth) ==
    IF depth >= RecursionLimit
    THEN [st |-> st, ret |-> FALSE]                          \* RecursionError, caught
    ELSE LET loaded == load_entry(st, level, id, clock, depth + 1)
             u == IF loaded.ret # {}
                  THEN update_indices(loaded.st, CHOOSE e \in loaded.ret : TRUE, "remove")
                  ELSE [st |-> loaded.st, ok |-> TRUE]
         IN IF ~u.ok
            THEN [st |-> u.st, ret |-> FALSE]                \* ValueError, caught
            ELSE [st |-> IF Exists(u.st, level, id) THEN Unlink(u.st, level, id) ELSE u.st,
                  ret |-> TRUE]

\* The storage medium failing: one file operation of the call raises OSError,
\* which the `except Exception` of save_entry, load_entry or delete_entry
\* catches. `fault` names the operation that fails.
IndexFaults == {"sessions", "tags", "sources"}

\* _update_indices(entry, action) when the _save_index of index `fault` raises:
\* the indices saved before it keep their edit, the others are not reached
update_indices_fault(st, entry, action, fault) ==
    LET s == SessionEdit(st.sessions, entry, action)
        st1 == [st EXCEPT !.sessions = s.index]
        t == TagEdit(st1.tags, meta_tags(entry), entry.id, action)
        st2 == [st1 EXCEPT !.tags = t.index]
        c == SourceEdit(st2.sources, entry, action)
    IN IF ~s.ok \/ fault = "sessions" THEN [st |-> st, ok |-> FALSE]
       ELSE IF ~t.ok \/ fault = "tags" THEN [st |-> st1, ok |-> FALSE]
       ELSE [st |-> st2, ok |-> FALSE]

\* save_entry(entry) when the write of the record file ("record") or of one
\* index file raises
save_entry_fault(st, entry, fault) ==
    IF fault = "record"
    THEN [st |-> st, ret |-> FALSE]
    ELSE LET written == [st EXCEPT !.records[get_file_path(entry.level, entry.id)] =
                                       {File(EntryDict(entry), WriteTime(st.records))}]
         IN [st |-> update_indices_fault(written, entry, "add", fault).st, ret |-> FALSE]

\* delete_entry(level, entry_id) of a record file that exists when one file
\* operation raises: the read in load_entry ("read": load_entry catches it and
\* returns None, and delete_entry goes on to unlink), the write of one index
\* file, or the unlink ("unlink")
delete_entry_fault(st, level, id, clock, fault) ==
    IF fault = "read"
    THEN [st |-> Unlink(st, level, id), ret |-> TRUE]
    ELSE LET loaded == load_entry(st, level, id, clock, 2)
         IN IF loaded.ret # {} /\ fault \in IndexFaults
            THEN [st |-> update_indices_fault(loaded.st, CHOOSE e \in loaded.ret : TRUE,
                                              "remove", fault).st,
                  ret |-> FALSE]
            ELSE LET u == IF loaded.ret # {}
                          THEN update_indices(loaded.st, CHOOSE e \in loaded.ret : TRUE,
                                              "remove")
                          ELSE [st |-> loaded.st, ok |-> TRUE]
                 IN [st |-> u.st, ret |-> FALSE]

\* the files clean_expired visits: level by level, the ids that have a file
\* (level_path.glob("*.json")), here in the order of IdOrder
IdOrder == <<"e1", "e2">>

\* clean_one gone wrong: the file is not loaded
clean_one_unread(acc, level, id, clock) == acc

\* the body of the inner loop of clean_expired for one file (lines 250-254)
clean_one(acc, level, id, clock) ==
    IF ~Exists(acc.st, level, id)
    THEN acc
    ELSE LET loaded == load_entry(acc.st, level, id, clock, 2)
             again == IF loaded.ret = {} THEN FALSE
                      ELSE is_expired(CHOOSE e \in loaded.ret : TRUE, clock).value
         IN IF again
            THEN [st |-> delete_entry(loaded.st, level, id, clock, 2).st,
                  cleaned |-> acc.cleaned + 1]
            ELSE [st |-> loaded.st, cleaned |-> acc.cleaned]

RECURSIVE clean_from(_, _, _, _)
\* the loops of clean_expired from file number i of level number l on
clean_from(acc, l, i, clock) ==
    IF l > Len(MemoryLevel) THEN acc
    ELSE IF i > Len(IdOrder) THEN clean_from(acc, l + 1, 1, clock)
    ELSE clean_from(clean_one(acc, MemoryLevel[l], IdOrder[i], clock), l, i + 1, clock)

\* clean_expired(): the store afterwards and the count returned
clean_expired(st, clock) == clean_from([st |-> st, cleaned |-> 0], 1, 1, clock)

----------------------------------------------------------------------------
(* Queries. They read records through load_entry, so they too change the store *)

\* the inner loop of query_by_session / query_by_tags (lines 213-217): the
\* levels are probed in the order of MemoryLevel from level number l on, and
\* the first entry load_entry returns is taken
RECURSIVE resolve_from(_, _, _, _, _)
resolve_from(st, l, id, clock, depth) ==
    IF l > Len(MemoryLevel)
    THEN [st |-> st, ret |-> <<>>]
    ELSE Only({IF r.ret # {}
               THEN [st |-> r.st, ret |-> <<CHOOSE e \in r.ret : TRUE>>]
               ELSE resolve_from(r.st, l + 1, id, clock, depth) :
               r \in {load_entry(st, MemoryLevel[l], id, clock, depth)}})

\* the outer loop (lines 210-217, 234-240) over the ids in the order given
RECURSIVE resolve_all(_, _, _, _)
resolve_all(st, ids, clock, depth) ==
    IF ids = <<>>
    THEN [st |-> st, ret |-> <<>>]
    ELSE Only({Only({[st |-> rest.st, ret |-> one.ret \o rest.ret] :
                         rest \in {resolve_all(one.st, Tail(ids), clock, depth)}}) :
               one \in {resolve_from(st, 1, Head(ids), clock, depth)}})

\* query_by_session(session_id), running in frame number `depth`
query_by_session(st, session_id, clock, depth) ==
    resolve_all(st, IndexGet(st.sessions, session_id), clock, depth + 1)

\* the characters of the tag strings and tag patterns of the model
Chars(str) ==
    CASE str = "T1" -> <<"T", "1">>
      [] str = "T2" -> <<"T", "2">>
      [] str = "T*" -> <<"T", "*">>
      [] str = "*1" -> <<"*", "1">>

\* fnmatch.fnmatch(name, pat) on character sequences: '*' stands for any run
\* of characters, '?' for one character, any other character for itself
RECURSIVE GlobMatch(_, _)
GlobMatch(name, pat) ==
    IF pat = <<>> THEN name = <<>>
    ELSE IF Head(pat) = "*"
         THEN GlobMatch(name, Tail(pat)) \/ (name # <<>> /\ GlobMatch(Tail(name), pat))
         ELSE /\ name # <<>>
              /\ Head(pat) = "?" \/ Head(pat) = Head(name)
              /\ GlobMatch(Tail(name), Tail(pat))

fnmatch(name, pat) == GlobMatch(Chars(name), Chars(pat))

\* the elements of a list
Range(list) == {list[n] : n \in 1..Len(list)}

\* the ids one tag of a tag query contributes (lines 227-232)
TagIds(index, tag) ==
    IF InList(Chars(tag), "*")
    THEN UNION {Range(index[k]) : k \in {k \in DOMAIN index : fnmatch(k, tag)}}
    ELSE Range(IndexGet(index, tag))

\* entry_ids of query_by_tags when the loop over the tags is done
entry_ids(st, taglist) == UNION {TagIds(st.tags, taglist[n]) : n \in 1..Len(taglist)}

\* the orders in which the elements of a set of strings can be iterated
Orders(S) ==
    {order \in [1..Cardinality(S) -> S] : \A x \in S : \E n \in DOMAIN order : order[n] = x}

\* query_by_tags(tags), running in frame number `depth`; `order` is the order
\* in which `for entry_id in entry_ids` visits the set
query_by_tags(st, order, clock, depth) == resolve_all(st, order, clock, depth + 1)

\* No session, no tag list, no level, no `since`
NoLevel == "None"
NoTags == <<>>
NoSince == {}

\* the characters of a timestamp string as their code points: seconds in two
\* digits, ".f" when the fraction is not zero, "Z" when the suffix is there
IsoString(ts) ==
    <<48 + (ts.t \div 10), 48 + (ts.t % 10)>>
        \o (IF ts.frac = 0 THEN <<>> ELSE <<46, 48 + ts.frac>>)
        \o (IF ts.suffix = "Z" THEN <<90>> ELSE <<>>)

\* a < b for strings
RECURSIVE StrLess(_, _)
StrLess(a, b) ==
    IF b = <<>> THEN FALSE
    ELSE IF a = <<>> THEN TRUE
    ELSE IF Head(a) # Head(b) THEN Head(a) < Head(b)
    ELSE StrLess(Tail(a), Tail(b))

\* sorted(results, key=lambda e: e.timestamp, reverse=True): descending by
\* the timestamp string, entries with equal strings in their earlier order.
\* An entry comes after those with a greater string and after the earlier
\* ones with an equal string.
SortedDesc(results) ==
    LET key == [n \in 1..Len(results) |-> IsoString(results[n].timestamp)]
        place == [n \in 1..Len(results) |->
                     1 + Cardinality({m \in 1..Len(results) :
                                         \/ StrLess(key[n], key[m])
                                         \/ m < n /\ key[m] = key[n]})]
    IN [n \in 1..Len(results) |->
           results[CHOOSE m \in 1..Len(results) : place[m] = n]]

\* the ids of the record files of a level, most recently modified first
\* (line 413: sorted(glob, key=st_mtime, reverse=True)); no two files of the
\* store have the same st_mtime
ByMtime(st, level, ids) ==
    [n \in 1..Cardinality(ids) |->
        CHOOSE i \in ids :
            Cardinality({j \in ids : Mtime(st, level, j) > Mtime(st, level, i)}) = n - 1]

\* the slice [:20] of line 415
RecencyBound == 20

Recent(files) ==
    SubSeq(files, 1, IF Len(files) < RecencyBound THEN Len(files) ELSE RecencyBound)

\* the ids that have a record file in the level
LevelIds(st, level) ==
    {p[2] : p \in {q \in DOMAIN st.records : q[1] = LevelValue(level) /\ st.records[q] # {}}}

\* the loop of lines 416-418 over the files listed for one level
RECURSIVE scan_files(_, _, _, _)
scan_files(st, level, files, clock) ==
    IF files = <<>>
    THEN [st |-> st, ret |-> <<>>]
    ELSE Only({Only({[st |-> rest.st,
                      ret |-> (IF r.ret = {} THEN <<>>
                               ELSE <<CHOOSE e \in r.ret : TRUE>>) \o rest.ret] :
                         rest \in {scan_files(r.st, level, Tail(files), clock)}}) :
               r \in {load_entry(st, level, Head(files), clock, 2)}})

\* the loop of lines 411-418 from level number l on
RECURSIVE scan_levels(_, _, _)
scan_levels(st, l, clock) ==
    IF l > Len(MemoryLevel)
    THEN [st |-> st, ret |-> <<>>]
    ELSE Only({Only({[st |-> rest.st, ret |-> here.ret \o rest.ret] :
                         rest \in {scan_levels(here.st, l + 1, clock)}}) :
               here \in {scan_files(st, MemoryLevel[l],
                                    Recent(ByMtime(st, MemoryLevel[l],
                                                   LevelIds(st, MemoryLevel[l]))),
                                    clock)}})

\* the `since` filter of lines 425-427 on one entry: the comparison of a
\* naive datetime with an aware one raises TypeError
After(entry, since) ==
    LET created == FromIsoFormat(ReplaceZ(entry.timestamp))
    IN [raised |-> created.aware # since.aware,
        value |-> 10 * created.t + created.frac > 10 * since.t + since.frac]

\* the level filter of lines 421-422
AtLevel(results, level) ==
    IF level = NoLevel THEN results ELSE SelectSeq(results, LAMBDA e : e.level = level)

\* the `since` filter raises on one of the results
Raises(results, since) ==
    \E s \in since : \E n \in 1..Len(results) : After(results[n], s).raised

\* the `since` filter of lines 425-427 when it does not raise
Since(results, since) ==
    IF since = {} THEN results
    ELSE SelectSeq(results, LAMBDA e : After(e, CHOOSE s \in since : TRUE).value)

\* DistributedMemoryAPI.query(tags, session_id, level, since). `raised`: the
\* TypeError of the `since` filter leaves query, which catches nothing.
query(st, taglist, session_id, level, since, order, clock) ==
    Only({[st |-> found.st,
           raised |-> Raises(AtLevel(found.ret, level), since),
           ret |-> IF Raises(AtLevel(found.ret, level), since) THEN <<>>
                   ELSE SortedDesc(Since(AtLevel(found.ret, level), since))] :
           found \in {IF session_id \notin {NoSession, ""}
                       THEN query_by_session(st, session_id, clock, 2)
                       ELSE IF taglist # <<>>
                       THEN query_by_tags(st, order, clock, 2)
                       ELSE scan_levels(st, 1, clock)}})

----------------------------------------------------------------------------
(* Inputs of the callers *)

\* MemorySource(type, id, session)
MemorySource(type, id, session) == [type |-> type, id |-> id, session |-> session]

\* MemoryEntry(id, timestamp, source, level, data, ttl, visibility)
MemoryEntry(id, timestamp, source, level, data, ttl, visibility) ==
    [id |-> id, timestamp |-> timestamp, source |-> source, level |-> level,
     data |-> data, ttl |-> ttl, visibility |-> visibility]

\* no current_focus in a payload
NoFocus == "None"

\* a payload: the `type` discriminator and the meta_tags list; session_id,
\* current_focus and working_set are the keys of a context payload, absent
\* (None, None, no item) in the others
Data(type, taglist) ==
    [type |-> type, meta_tags |-> taglist, session_id |-> NoSession,
     current_focus |-> NoFocus, working_set |-> {}]

\* The entries a caller creates at clock value t. Between them they share an
\* id within a level (with another session, tag list and ttl), an id across
\* levels, a tag and a source key across sessions; they come with and without
\* session, with ttl None, 0 and 1, with naive and 'Z' timestamps, on a whole
\* second and half a second after it.
Pool(t) ==
    { MemoryEntry("e1", Timestamp(t, 0, "Z"), MemorySource("CHAT", "a", "S1"), "IMMEDIATE",
                  Data("context", <<"T1">>), NoTtl, "private"),
      MemoryEntry("e1", Timestamp(t, 0, ""), MemorySource("CHAT", "a", "S2"), "IMMEDIATE",
                  Data("pattern", <<"T1", "T2">>), 1, "private"),
      MemoryEntry("e1", Timestamp(t, 0, ""), MemorySource("AGENT", "b", NoSession), "WORKING",
                  Data("pattern", <<>>), 0, "shared"),
      MemoryEntry("e2", Timestamp(t, 0, "Z"), MemorySource("API", "a", "S1"), "WORKING",
                  Data("context", <<"T2">>), 1, "private"),
      MemoryEntry("e2", Timestamp(t, 0, ""), MemorySource("FUNCTION", "b", "S1"), "LONGTERM",
                  Data("handoff", <<"T1">>), 1, "private"),
      MemoryEntry("e2", Timestamp(t, 5, "Z"), MemorySource("CHAT", "a", "S1"), "LONGTERM",
                  Data("pattern", <<"T2", "T1">>), NoTtl, "shared") }

\* the threads that call the store
Callers == {"c1", "c2"}

----------------------------------------------------------------------------
(* State of the store and of the callers *)

\* an empty base_path, as __init__ leaves it
EmptyStore == Store([p \in Paths |-> {}], EmptyIndex, EmptyIndex, EmptyIndex)

\* the store of the current state
Cur == Store(records, sessions, tags, sources)

\* the store becomes st
SetStore(st) ==
    /\ records' = st.records
    /\ sessions' = st.sessions
    /\ tags' = st.tags
    /\ sources' = st.sources

\* what `last` holds: the operation, the entry put, the entry a get returned,
\* the boolean a put or delete returned, the count a sweep returned
Call(op, arg, found, ok, cleaned) ==
    [op |-> op, arg |-> arg, found |-> found, ok |-> ok, cleaned |-> cleaned,
     rows |-> <<>>]

\* the same for a query: `rows` is the list of entries it returned
Answer(op, asked, rows, ok) == [Call(op, asked, {}, ok, 0) EXCEPT !.rows = rows]

NoCall == [op |-> "none", level |-> "IMMEDIATE", id |-> "e1", entry |-> {}]
NoLocals ==
    [level |-> "IMMEDIATE", id |-> "e1", entry |-> {}, action |-> "none", i |-> 0,
     index |-> EmptyIndex, lv |-> 0, files |-> <<>>, cleaned |-> 0,
     rv |-> [ok |-> TRUE, found |-> {}, cleaned |-> 0]]

ThreadInit ==
    /\ lock = {}
    /\ pc = [c \in Callers |-> "idle"]
    /\ call = [c \in Callers |-> NoCall]
    /\ stack = [c \in Callers |-> <<>>]
    /\ loc = [c \in Callers |-> NoLocals]
    /\ ret = [c \in Callers |-> {}]

Init ==
    /\ records = EmptyStore.records
    /\ sessions = EmptyIndex
    /\ tags = EmptyIndex
    /\ sources = EmptyIndex
    /\ now = 0
    /\ nputs = 0
    /\ last = Call("none", {}, {}, TRUE, 0)
    /\ ThreadInit

----------------------------------------------------------------------------
(* One caller: each operation of the store is one action *)

\* put: save_entry(entry)
Put(entry) ==
    /\ nputs < MaxPuts
    /\ LET r == save_entry(Cur, entry)
       IN /\ SetStore(r.st)
          /\ last' = Call("put", {entry}, {}, r.ret, 0)
    /\ nputs' = nputs + 1
    /\ UNCHANGED <<now, threadVars>>

\* get: load_entry(level, id)
Get(level, id) ==
    /\ LET r == load_entry(Cur, level, id, now, 1)
       IN /\ SetStore(r.st)
          /\ last' = Call("get", {}, r.ret, TRUE, 0)
    /\ UNCHANGED <<now, nputs, threadVars>>

\* delete: delete_entry(level, id)
Delete(level, id) ==
    /\ LET r == delete_entry(Cur, level, id, now, 1)
       IN /\ SetStore(r.st)
          /\ last' = Call("delete", {}, {}, r.ret, 0)
    /\ UNCHANGED <<now, nputs, threadVars>>

\* sweep: clean_expired()
Sweep ==
    /\ LET r == clean_expired(Cur, now)
       IN /\ SetStore(r.st)
          /\ last' = Call("sweep", {}, {}, TRUE, r.cleaned)
    /\ UNCHANGED <<now, nputs, threadVars>>

\* a second passes
Tick ==
    /\ now < MaxTime
    /\ now' = now + 1
    /\ UNCHANGED <<storeVars, nputs, last, threadVars>>

Next ==
    \/ \E entry \in Pool(now) : Put(entry)
    \/ \E level \in Levels, id \in Ids : Get(level, id)
    \/ \E level \in Levels, id \in Ids : Delete(level, id)
    \/ Sweep
    \/ Tick

Spec == Init /\ [][Next]_vars

----------------------------------------------------------------------------
(* One caller on a storage medium that can fail *)

\* put while the medium fails at one step
PutFault(entry, fault) ==
    /\ nputs < MaxPuts
    /\ LET r == save_entry_fault(Cur, entry, fault)
       IN /\ SetStore(r.st)
          /\ last' = Call("put", {entry}, {}, r.ret, 0)
    /\ nputs' = nputs + 1
    /\ UNCHANGED <<now, threadVars>>

\* the file operations a delete of (level, id) performs in store st: the read
\* and the unlink when the file exists, the index writes when load_entry
\* returns the entry
DeleteFaults(st, level, id, clock) ==
    (IF Exists(st, level, id) THEN {"read"} ELSE {})
        \cup (IF load_entry(st, level, id, clock, 2).ret # {} THEN IndexFaults ELSE {})
        \cup (IF Exists(load_entry(st, level, id, clock, 2).st, level, id)
              THEN {"unlink"} ELSE {})

\* delete while the medium fails at one step
DeleteFault(level, id, fault) ==
    /\ fault \in DeleteFaults(Cur, level, id, now)
    /\ LET r == delete_entry_fault(Cur, level, id, now, fault)
       IN /\ SetStore(r.st)
          /\ last' = Call("delete", {}, {}, r.ret, 0)
    /\ UNCHANGED <<now, nputs, threadVars>>

\* the caller puts and deletes, and the medium may fail during either; the
\* clock stands still
NextFault ==
    \/ \E entry \in Pool(now) : Put(entry)
    \/ \E level \in Levels, id \in Ids : Delete(level, id)
    \/ \E entry \in Pool(now), fault \in {"record"} \cup IndexFaults : PutFault(entry, fault)
    \/ \E level \in Levels, id \in Ids, fault \in {"read", "unlink"} \cup IndexFaults :
          DeleteFault(level, id, fault)

SpecFault == Init /\ [][NextFault]_vars

----------------------------------------------------------------------------
(* One caller of the store and of the query interface *)

\* the arguments of the queries: sessions, tag lists (exact tags and
\* patterns), levels, and datetimes for `since` (naive and aware)
QuerySessions == {"S1", "S2"}
QueryTags == {<<"T1">>, <<"T*">>, <<"*1">>, <<"T1", "T2">>}
NaiveSince == {[t |-> 0, frac |-> 0, aware |-> FALSE]}
AwareSince == {[t |-> 0, frac |-> 0, aware |-> TRUE]}

\* the argument lists of query: by session, by tags and unfiltered, each
\* alone and with a level filter or a `since` filter
QueryArgs ==
    { <<NoTags, "S1", NoLevel, NoSince>>,
      <<NoTags, "S1", "LONGTERM", AwareSince>>,
      <<NoTags, "S2", NoLevel, NaiveSince>>,
      <<(<<"T*">>), NoSession, NoLevel, NoSince>>,
      <<(<<"T1", "T2">>), NoSession, "IMMEDIATE", NaiveSince>>,
      <<NoTags, NoSession, NoLevel, NoSince>>,
      <<NoTags, NoSession, "WORKING", NoSince>>,
      <<NoTags, NoSession, NoLevel, AwareSince>> }

\* the arguments of a query as `last` keeps them
Asked(taglist, session_id, level, since) ==
    {[tags |-> taglist, session |-> session_id, level |-> level, since |-> since]}

\* query_by_session(session_id)
QueryBySession(session_id) ==
    /\ \E r \in {query_by_session(Cur, session_id, now, 1)} :
          /\ SetStore(r.st)
          /\ last' = Answer("query_by_session",
                            Asked(NoTags, session_id, NoLevel, NoSince), r.ret, TRUE)
    /\ UNCHANGED <<now, nputs, threadVars>>

\* query_by_tags(tags); the set of ids is visited in some order
QueryByTags(taglist) ==
    /\ \E order \in Orders(entry_ids(Cur, taglist)) :
          \E r \in {query_by_tags(Cur, order, now, 1)} :
             /\ SetStore(r.st)
             /\ last' = Answer("query_by_tags",
                               Asked(taglist, NoSession, NoLevel, NoSince), r.ret, TRUE)
    /\ UNCHANGED <<now, nputs, threadVars>>

\* query(tags, session_id, level, since); ok is FALSE when query raises
Query(taglist, session_id, level, since) ==
    /\ \E order \in Orders(entry_ids(Cur, taglist)) :
          \E r \in {query(Cur, taglist, session_id, level, since, order, now)} :
             /\ SetStore(r.st)
             /\ last' = Answer("query", Asked(taglist, session_id, level, since),
                               r.ret, ~r.raised)
    /\ UNCHANGED <<now, nputs, threadVars>>

NextApi ==
    \/ Next
    \/ \E session_id \in QuerySessions : QueryBySession(session_id)
    \/ \E taglist \in QueryTags : QueryByTags(taglist)
    \/ \E args \in QueryArgs : Query(args[1], args[2], args[3], args[4])

SpecApi == Init /\ [][NextApi]_vars

----------------------------------------------------------------------------
(* One caller of the store and of DistributedMemoryAPI *)

\* the ttl of a context (line 280), a pattern (line 333), a handoff (line 357)
ContextTtl == 86400
PatternTtl == 604800
HandoffTtl == 3600

\* datetime.utcnow().isoformat() + 'Z' at a whole second
UtcNowZ(clock) == Timestamp(clock, 0, "Z")

\* str(uuid.uuid4()): an id the store has never seen -- no level holds a
\* record of it and no index lists it
FreshIds(st) ==
    {id \in Ids :
        /\ \A level \in Levels : ~Exists(st, level, id)
        /\ \A k \in DOMAIN st.sessions : ~InList(st.sessions[k], id)
        /\ \A k \in DOMAIN st.tags : ~InList(st.tags[k], id)
        /\ \A k \in DOMAIN st.sources : ~InList(st.sources[k], id)}

\* the payload create_context builds (lines 273-279)
ContextData(session_id, focus) ==
    [Data("context", <<"CONTEXT", "SESSION_" \o session_id>>)
        EXCEPT !.session_id = session_id, !.current_focus = focus]

\* create_context(session_id, source, initial_focus) with uuid4 returning id;
\* the value save_entry returns is dropped and the id is returned
create_context(st, id, session_id, source, initial_focus, clock) ==
    [st |-> save_entry(st, MemoryEntry(id, UtcNowZ(clock), source, "IMMEDIATE",
                                       ContextData(session_id, initial_focus),
                                       ContextTtl, "private")).st,
     ret |-> id]

\* save_pattern(source, pattern, tags) with uuid4 returning id; the pattern
\* itself is a payload key no operation reads back but load_context
save_pattern(st, id, source, taglist, clock) ==
    [st |-> save_entry(st, MemoryEntry(id, UtcNowZ(clock), source, "WORKING",
                                       Data("pattern", taglist \o <<"PATTERN">>),
                                       PatternTtl, "private")).st,
     ret |-> id]

\* create_handoff(from_source, to_type, context, instructions) with uuid4
\* returning id
create_handoff(st, id, from_source, clock) ==
    [st |-> save_entry(st, MemoryEntry(id, UtcNowZ(clock), from_source, "IMMEDIATE",
                                       Data("handoff",
                                            <<"HANDOFF",
                                              "FROM_" \o SourceTypeValue(from_source.type)>>),
                                       HandoffTtl, "private")).st,
     ret |-> id]

\* [e for e in entries if e.data.get("type") == "context"]
context_entries(entries) == SelectSeq(entries, LAMBDA e : e.data.type = "context")

\* the selection the three context operations share (lines 288-293, 303-308,
\* 365-372): the session's entries are queried and the last context among
\* them is taken; `chosen` is {} when there is none
select_context(st, session_id, clock) ==
    Only({[st |-> q.st, entries |-> q.ret,
           chosen |-> {context_entries(q.ret)[n] :          \* context_entries[-1]
                        n \in {Len(context_entries(q.ret))} \ {0}}] :
          q \in {query_by_session(st, session_id, clock, 2)}})

\* the end of both updates (lines 297-299, 314-316): the edited context is
\* stamped with the time of the update and saved
save_context(st, context, chosen, clock) ==
    Only({[st |-> saved.st, ret |-> saved.ret, chosen |-> chosen] :
          saved \in {save_entry(st, [context EXCEPT !.timestamp = UtcNowZ(clock)])}})

\* update_focus(session_id, new_focus); False when no context is selected
update_focus(st, session_id, new_focus, clock) ==
    Only({IF sel.chosen = {} THEN [st |-> sel.st, ret |-> FALSE, chosen |-> {}]
          ELSE save_context(sel.st,
                            [Only(sel.chosen) EXCEPT !.data.current_focus = new_focus],
                            sel.chosen, clock) :
          sel \in {select_context(st, session_id, clock)}})

\* add_to_working_set(session_id, key, value); False when no context is
\* selected. working_set[key] = value replaces the item of the key.
add_to_working_set(st, session_id, key, value, clock) ==
    Only({IF sel.chosen = {} THEN [st |-> sel.st, ret |-> FALSE, chosen |-> {}]
          ELSE save_context(sel.st,
                            [Only(sel.chosen)
                                EXCEPT !.data.working_set =
                                           {item \in @ : item[1] # key}
                                               \cup {<<key, value>>}],
                            sel.chosen, clock) :
          sel \in {select_context(st, session_id, clock)}})

\* load_context(session_id): `ret` is {} for None, otherwise the package,
\* written flat: context.immediate.current_focus and .working_set,
\* metadata.last_updated and .entry_count (the patterns are left out)
load_context(st, session_id, clock) ==
    Only({[st |-> sel.st,
           ret |-> {[current_focus |-> context.data.current_focus,
                     working_set |-> context.data.working_set,
                     last_updated |-> context.timestamp,
                     entry_count |-> Len(sel.entries)] : context \in sel.chosen},
           chosen |-> sel.chosen,
           entries |-> sel.entries] :
          sel \in {select_context(st, session_id, clock)}})

\* the arguments of the API calls: session ids, and sources with the session
\* of session_id and with another one
ApiSessions == {"S1", "S2"}
ApiSources == {MemorySource("CHAT", "a", "S1"), MemorySource("AGENT", "b", "S2")}

\* create_context(session_id, source, initial_focus)
CreateContext(session_id, source, initial_focus) ==
    /\ nputs < MaxPuts
    /\ \E id \in FreshIds(Cur) :
          \E r \in {create_context(Cur, id, session_id, source, initial_focus, now)} :
             /\ SetStore(r.st)
             /\ last' = Call("create_context", Asked(NoTags, session_id, NoLevel, NoSince),
                             {}, TRUE, 0)
    /\ nputs' = nputs + 1
    /\ UNCHANGED <<now, threadVars>>

\* save_pattern(source, pattern, tags)
SavePattern(source, taglist) ==
    /\ nputs < MaxPuts
    /\ \E id \in FreshIds(Cur) :
          \E r \in {save_pattern(Cur, id, source, taglist, now)} :
             /\ SetStore(r.st)
             /\ last' = Call("save_pattern", Asked(taglist, source.session, NoLevel, NoSince),
                             {}, TRUE, 0)
    /\ nputs' = nputs + 1
    /\ UNCHANGED <<now, threadVars>>

\* create_handoff(from_source, to_type, context, instructions)
CreateHandoff(from_source) ==
    /\ nputs < MaxPuts
    /\ \E id \in FreshIds(Cur) :
          \E r \in {create_handoff(Cur, id, from_source, now)} :
             /\ SetStore(r.st)
             /\ last' = Call("create_handoff",
                             Asked(NoTags, from_source.session, NoLevel, NoSince),
                             {}, TRUE, 0)
    /\ nputs' = nputs + 1
    /\ UNCHANGED <<now, threadVars>>

\* what `last` holds after an update or load_context: the session asked for,
\* the context selected in `found`, the entries of the session in `rows`, the
\* boolean returned (load_context: a package was returned) and, for
\* load_context, entry_count in `cleaned`
Selected(op, session_id, chosen, entries, ok, count) ==
    [Answer(op, Asked(NoTags, session_id, NoLevel, NoSince), entries, ok)
        EXCEPT !.found = chosen, !.cleaned = count]

\* update_focus(session_id, new_focus); a save counts as a put
UpdateFocus(session_id, new_focus) ==
    /\ nputs < MaxPuts
    /\ \E r \in {update_focus(Cur, session_id, new_focus, now)} :
          /\ SetStore(r.st)
          /\ last' = Selected("update_focus", session_id, r.chosen, <<>>, r.ret, 0)
          /\ nputs' = IF r.chosen = {} THEN nputs ELSE nputs + 1
    /\ UNCHANGED <<now, threadVars>>

\* add_to_working_set(session_id, key, value); a save counts as a put
AddToWorkingSet(session_id, key, value) ==
    /\ nputs < MaxPuts
    /\ \E r \in {add_to_working_set(Cur, session_id, key, value, now)} :
          /\ SetStore(r.st)
          /\ last' = Selected("add_to_working_set", session_id, r.chosen, <<>>, r.ret, 0)
          /\ nputs' = IF r.chosen = {} THEN nputs ELSE nputs + 1
    /\ UNCHANGED <<now, threadVars>>

\* load_context(session_id)
LoadContext(session_id) ==
    /\ \E r \in {load_context(Cur, session_id, now)} :
          /\ SetStore(r.st)
          /\ last' = Selected("load_context", session_id, r.chosen, r.entries, r.ret # {},
                              IF r.ret = {} THEN 0 ELSE Only(r.ret).entry_count)
    /\ UNCHANGED <<now, nputs, threadVars>>

\* the caller creates contexts, updates and loads them
NextContexts ==
    \/ \E session_id \in ApiSessions, source \in ApiSources, focus \in {"f1", "f2"} :
          CreateContext(session_id, source, focus)
    \/ \E session_id \in ApiSessions, focus \in {"f1", "f2"} :
          UpdateFocus(session_id, focus)
    \/ \E session_id \in ApiSessions, value \in {"v1", "v2"} :
          AddToWorkingSet(session_id, "k", value)
    \/ \E session_id \in ApiSessions : LoadContext(session_id)
    \/ Tick

SpecContexts == Init /\ [][NextContexts]_vars

\* the caller uses the whole API, and the store below it to put entries
NextCtx ==
    \/ NextContexts
    \/ \E source \in ApiSources : SavePattern(source, <<"T1">>)
    \/ \E source \in ApiSources : CreateHandoff(source)
    \/ \E entry \in Pool(now) : Put(entry)

SpecCtx == Init /\ [][NextCtx]_vars

----------------------------------------------------------------------------
(* One caller querying levels that hold more records than the recency bound *)

\* file names for the records of a full level
FileNames ==
    <<"f01", "f02", "f03", "f04", "f05", "f06", "f07", "f08", "f09", "f10", "f11", "f12",
      "f13", "f14", "f15", "f16", "f17", "f18", "f19", "f20", "f21", "f22", "f23", "f24">>

\* the record put as number k of a level: every second one has a ttl
ScanEntry(level, k) ==
    MemoryEntry(FileNames[k], Timestamp(0, 0, ""), MemorySource("API", "a", NoSession),
                level, Data("pattern", <<>>), IF k % 2 = 0 THEN 1 ELSE NoTtl, "private")

\* the number of records put before the first one of level number l
RECURSIVE PutBefore(_, _)
PutBefore(counts, l) == IF l = 1 THEN 0 ELSE counts[l - 1] + PutBefore(counts, l - 1)

\* the ids put into level number l, in the order of the puts
PutIds(counts, l) == SubSeq(FileNames, 1, counts[l])

\* the store after save_entry of records 1..counts[l] of every level l, one
\* level after the other: each record file holds its document and is newer
\* than the files written before it, the source index lists the ids in the
\* order of the puts, and the entries have neither a session nor tags
Filled(st, counts) ==
    LET put(p) == {lk \in (1..Len(MemoryLevel)) \X (1..MaxFiles) :
                      /\ lk[2] <= counts[lk[1]]
                      /\ p = get_file_path(MemoryLevel[lk[1]], FileNames[lk[2]])}
        ids == PutIds(counts, 1) \o PutIds(counts, 2) \o PutIds(counts, 3)
        first == ScanEntry(MemoryLevel[1], 1)
    IN Store([p \in DOMAIN st.records |->
                 IF put(p) = {} THEN st.records[p]
                 ELSE LET lk == CHOOSE lk \in put(p) : TRUE
                      IN {File(EntryDict(ScanEntry(MemoryLevel[lk[1]], lk[2])),
                               PutBefore(counts, lk[1]) + lk[2])}],
             st.sessions, st.tags,
             IF ids = <<>> THEN st.sources
             ELSE [k \in {source_key(first)} |-> ids])

\* the numbers of records a level starts with: none, as many as the recency
\* bound, more than the bound
FillCounts == {0, RecencyBound, MaxFiles}

\* an empty base_path with room for MaxFiles records in each level
EmptyScanStore ==
    Store([p \in Paths \cup {get_file_path(l, FileNames[k]) : l \in Levels, k \in 1..MaxFiles}
              |-> {}],
          EmptyIndex, EmptyIndex, EmptyIndex)

InitScan ==
    /\ \E n1 \in FillCounts, n2 \in FillCounts, n3 \in FillCounts :
          LET st == Filled(EmptyScanStore, <<n1, n2, n3>>)
          IN /\ records = st.records
             /\ sessions = st.sessions
             /\ tags = st.tags
             /\ sources = st.sources
    /\ now = 0
    /\ nputs = 0
    /\ last = Call("none", {}, {}, TRUE, 0)
    /\ ThreadInit

\* the queries without session and tags
ScanArgs == {args \in QueryArgs : args[1] = NoTags /\ args[2] = NoSession}

NextScan ==
    \/ \E args \in ScanArgs : Query(args[1], args[2], args[3], args[4])
    \/ Tick

SpecScan == InitScan /\ [][NextScan]_vars

----------------------------------------------------------------------------
(* Two callers: an operation is a sequence of steps *)

\* what a function returns: the boolean of save_entry / delete_entry, the
\* entry of load_entry ({} for None), the count of clean_expired
Result(ok, found, cleaned) == [ok |-> ok, found |-> found, cleaned |-> cleaned]
Bool(b) == Result(b, {}, 0)
Found(entries) == Result(TRUE, entries, 0)

\* the locals of a frame: the arguments (level, id, entry), the _update_indices
\* state (action, index number i, the index loaded and edited in memory), the
\* clean_expired state (level number lv, files left in it, cleaned) and the
\* value the last callee returned (rv)
Locals(level, id, entry) ==
    [level |-> level, id |-> id, entry |-> entry, action |-> "none", i |-> 0,
     index |-> EmptyIndex, lv |-> 0, files |-> <<>>, cleaned |-> 0, rv |-> Bool(TRUE)]

\* a suspended frame: where it resumes and its locals
Frame(label, locals) == [pc |-> label, loc |-> locals]

\* frames in use by caller c, the running one included
Depth(c) == Len(stack[c]) + 1

\* the operations a caller may run at clock value t
PutCall(entry) == [op |-> "put", level |-> entry.level, id |-> entry.id, entry |-> {entry}]
GetCall(level, id) == [op |-> "get", level |-> level, id |-> id, entry |-> {}]
DeleteCall(level, id) == [op |-> "delete", level |-> level, id |-> id, entry |-> {}]
SweepCall == [op |-> "sweep", level |-> "IMMEDIATE", id |-> "e1", entry |-> {}]

\* the entries the two callers put: two entries of distinct id that share a
\* session, a tag and a source key
ConcPool(t) == {e \in Pool(t) : e.ttl = NoTtl}

ConcCalls(t) ==
    {PutCall(e) : e \in ConcPool(t)}
        \cup {GetCall("IMMEDIATE", "e1"), DeleteCall("IMMEDIATE", "e1"), SweepCall}

\* the first step of each operation
FirstStep(op) ==
    CASE op = "put" -> "save_lock"
      [] op = "get" -> "load_read"
      [] op = "delete" -> "del_call"
      [] op = "sweep" -> "sweep_glob"

\* the file of index number i (the order of _update_indices)
IndexFile(i) == CASE i = 1 -> sessions [] i = 2 -> tags [] i = 3 -> sources

\* block number i of _update_indices applied to a loaded index
EditNo(i, index, entry, action) ==
    CASE i = 1 -> SessionEdit(index, entry, action)
      [] i = 2 -> TagEdit(index, meta_tags(entry), entry.id, action)
      [] i = 3 -> SourceEdit(index, entry, action)

\* the running function of caller c returns v: to the frame below, or to the caller
Return(c, v) ==
    IF stack[c] = <<>>
    THEN /\ pc' = [pc EXCEPT ![c] = "done"]
         /\ ret' = [ret EXCEPT ![c] = {v}]
         /\ loc' = [loc EXCEPT ![c] = NoLocals]
         /\ UNCHANGED stack
    ELSE LET top == stack[c][Len(stack[c])]
         IN /\ pc' = [pc EXCEPT ![c] = top.pc]
            /\ loc' = [loc EXCEPT ![c] = [top.loc EXCEPT !.rv = v]]
            /\ stack' = [stack EXCEPT ![c] = SubSeq(stack[c], 1, Len(stack[c]) - 1)]
            /\ UNCHANGED ret

\* the running function calls load_entry / delete_entry (first step `entry_pc`)
\* and resumes at `resume`
CallFn(c, entry_pc, resume, level, id) ==
    /\ stack' = [stack EXCEPT ![c] = Append(stack[c], Frame(resume, loc[c]))]
    /\ pc' = [pc EXCEPT ![c] = entry_pc]
    /\ loc' = [loc EXCEPT ![c] = Locals(level, id, {})]
    /\ UNCHANGED ret

\* the running function goes on at `label` with locals `locals`
Goto(c, label, locals) ==
    /\ pc' = [pc EXCEPT ![c] = label]
    /\ loc' = [loc EXCEPT ![c] = locals]
    /\ UNCHANGED <<stack, ret>>

\* a caller that has not run yet starts an operation
Start(c, op) ==
    /\ pc[c] = "idle"
    /\ call' = [call EXCEPT ![c] = op]
    /\ pc' = [pc EXCEPT ![c] = FirstStep(op.op)]
    /\ loc' = [loc EXCEPT ![c] =
                  IF op.op = "sweep" THEN [Locals(op.level, op.id, {}) EXCEPT !.lv = 1]
                  ELSE Locals(op.level, op.id, op.entry)]
    /\ UNCHANGED <<storeVars, now, nputs, last, lock, stack, ret>>

\* save_entry line 143: `with self.lock:` acquires the lock
SaveLock(c) ==
    /\ pc[c] = "save_lock"
    /\ lock = {}
    /\ lock' = {c}
    /\ Goto(c, "save_write", loc[c])
    /\ UNCHANGED <<storeVars, now, nputs, last, call>>

\* SaveWrite gone wrong: the lock stays held while _update_indices runs
\* (the `with self.lock:` block of save_entry extended over line 147)
SaveWriteHoldingLock(c) ==
    /\ pc[c] = "save_write"
    /\ LET entry == CHOOSE e \in loc[c].entry : TRUE
       IN records' = [records EXCEPT ![get_file_path(entry.level, entry.id)] =
                                         {File(EntryDict(entry), WriteTime(records))}]
    /\ UNCHANGED lock
    /\ pc' = [pc EXCEPT ![c] = "idx_load"]
    /\ loc' = [loc EXCEPT ![c] = [loc[c] EXCEPT !.action = "add", !.i = 1]]
    /\ UNCHANGED <<sessions, tags, sources, now, nputs, last, call, stack, ret>>

\* save_entry lines 144-147: the record is written, the lock released, and
\* _update_indices(entry, "add") begins
SaveWrite(c) ==
    /\ pc[c] = "save_write"
    /\ LET entry == CHOOSE e \in loc[c].entry : TRUE
       IN records' = [records EXCEPT ![get_file_path(entry.level, entry.id)] =
                                         {File(EntryDict(entry), WriteTime(records))}]
    /\ lock' = {}
    /\ Goto(c, "idx_load", [loc[c] EXCEPT !.action = "add", !.i = 1])
    /\ UNCHANGED <<sessions, tags, sources, now, nputs, last, call>>

\* _update_indices: _load_index of index number i and the edit in memory
\* (lines 88-96, 100-109, 113-121). A ValueError leaves _update_indices and is
\* caught by delete_entry, which returns False.
IdxLoad(c) ==
    /\ pc[c] = "idx_load"
    /\ LET entry == CHOOSE e \in loc[c].entry : TRUE
           edit == EditNo(loc[c].i, IndexFile(loc[c].i), entry, loc[c].action)
       IN IF edit.ok
          THEN Goto(c, "idx_lock", [loc[c] EXCEPT !.index = edit.index])
          ELSE Return(c, Bool(FALSE))
    /\ UNCHANGED <<storeVars, now, nputs, last, lock, call>>

\* _save_index line 82: `with self.lock:` acquires the lock
IdxLock(c) ==
    /\ pc[c] = "idx_lock"
    /\ lock = {}
    /\ lock' = {c}
    /\ Goto(c, "idx_write", loc[c])
    /\ UNCHANGED <<storeVars, now, nputs, last, call>>

\* _save_index lines 83-84: the index file is written and the lock released;
\* then the next index, or the return of _update_indices into save_entry
\* (return True) or delete_entry (line 197)
IdxWrite(c) ==
    /\ pc[c] = "idx_write"
    /\ sessions' = IF loc[c].i = 1 THEN loc[c].index ELSE sessions
    /\ tags' = IF loc[c].i = 2 THEN loc[c].index ELSE tags
    /\ sources' = IF loc[c].i = 3 THEN loc[c].index ELSE sources
    /\ lock' = {}
    /\ IF loc[c].i < 3
       THEN Goto(c, "idx_load", [loc[c] EXCEPT !.i = loc[c].i + 1, !.index = EmptyIndex])
       ELSE IF loc[c].action = "add"
            THEN Return(c, Bool(TRUE))
            ELSE Goto(c, "del_exists", [loc[c] EXCEPT !.index = EmptyIndex])
    /\ UNCHANGED <<records, now, nputs, last, call>>

\* load_entry lines 156-185: the file is looked up and read, and is_expired
\* decides between `return entry`, `return None` and the call of delete_entry
LoadRead(c) ==
    /\ pc[c] = "load_read"
    /\ LET level == loc[c].level
           id == loc[c].id
       IN IF ~Exists(Cur, level, id)
          THEN Return(c, Found({}))
          ELSE LET entry == EntryOfDict(Document(Cur, level, id))
                   exp == is_expired(entry, now)
               IN IF exp.raised THEN Return(c, Found({}))
                  ELSE IF ~exp.value THEN Return(c, Found({entry}))
                  ELSE IF Depth(c) >= RecursionLimit THEN Return(c, Found({}))
                  ELSE CallFn(c, "del_call", "load_deleted", level, id)
    /\ UNCHANGED <<storeVars, now, nputs, last, lock, call>>

\* load_entry line 183: delete_entry has returned, `return None`
LoadDeleted(c) ==
    /\ pc[c] = "load_deleted"
    /\ Return(c, Found({}))
    /\ UNCHANGED <<storeVars, now, nputs, last, lock, call>>

\* delete_entry line 193: the call of load_entry
DelCall(c) ==
    /\ pc[c] = "del_call"
    /\ IF Depth(c) >= RecursionLimit
       THEN Return(c, Bool(FALSE))
       ELSE CallFn(c, "load_read", "del_loaded", loc[c].level, loc[c].id)
    /\ UNCHANGED <<storeVars, now, nputs, last, lock, call>>

\* delete_entry lines 194-195: `if entry: self._update_indices(entry, "remove")`
DelLoaded(c) ==
    /\ pc[c] = "del_loaded"
    /\ IF loc[c].rv.found # {}
       THEN Goto(c, "idx_load", [loc[c] EXCEPT !.entry = loc[c].rv.found, !.rv = Bool(TRUE),
                                               !.action = "remove", !.i = 1])
       ELSE Goto(c, "del_exists", loc[c])
    /\ UNCHANGED <<storeVars, now, nputs, last, lock, call>>

\* delete_entry line 198: `if file_path.exists()`
DelExists(c) ==
    /\ pc[c] = "del_exists"
    /\ IF Exists(Cur, loc[c].level, loc[c].id)
       THEN Goto(c, "del_unlink", loc[c])
       ELSE Return(c, Bool(TRUE))
    /\ UNCHANGED <<storeVars, now, nputs, last, lock, call>>

\* delete_entry lines 199-200: unlink and `return True`; FileNotFoundError
\* (the file went away after line 198) is caught and gives `return False`
DelUnlink(c) ==
    /\ pc[c] = "del_unlink"
    /\ IF Exists(Cur, loc[c].level, loc[c].id)
       THEN /\ records' = Unlink(Cur, loc[c].level, loc[c].id).records
            /\ Return(c, Bool(TRUE))
       ELSE /\ UNCHANGED records
            /\ Return(c, Bool(FALSE))
    /\ UNCHANGED <<sessions, tags, sources, now, nputs, last, lock, call>>

\* the ids with a file in a level, in the order of IdOrder
RECURSIVE Glob(_, _)
Glob(level, i) ==
    IF i > Len(IdOrder) THEN <<>>
    ELSE (IF Exists(Cur, level, IdOrder[i]) THEN <<IdOrder[i]>> ELSE <<>>) \o Glob(level, i + 1)

\* clean_expired lines 247-249: the next level is listed; after the last
\* level, `return cleaned`
SweepGlob(c) ==
    /\ pc[c] = "sweep_glob"
    /\ IF loc[c].lv > Len(MemoryLevel)
       THEN Return(c, Result(TRUE, {}, loc[c].cleaned))
       ELSE Goto(c, "sweep_file", [loc[c] EXCEPT !.level = MemoryLevel[loc[c].lv],
                                                 !.files = Glob(MemoryLevel[loc[c].lv], 1)])
    /\ UNCHANGED <<storeVars, now, nputs, last, lock, call>>

\* clean_expired lines 249-251: the next file of the level is loaded
SweepFile(c) ==
    /\ pc[c] = "sweep_file"
    /\ IF loc[c].files = <<>>
       THEN Goto(c, "sweep_glob", [loc[c] EXCEPT !.lv = loc[c].lv + 1])
       ELSE /\ stack' = [stack EXCEPT ![c] = Append(stack[c],
                            Frame("sweep_loaded", [loc[c] EXCEPT !.id = Head(loc[c].files),
                                                                 !.files = Tail(loc[c].files)]))]
            /\ pc' = [pc EXCEPT ![c] = "load_read"]
            /\ loc' = [loc EXCEPT ![c] = Locals(loc[c].level, Head(loc[c].files), {})]
            /\ UNCHANGED ret
    /\ UNCHANGED <<storeVars, now, nputs, last, lock, call>>

\* clean_expired lines 252-253: `if entry and entry.is_expired()` calls delete_entry
SweepLoaded(c) ==
    /\ pc[c] = "sweep_loaded"
    /\ IF loc[c].rv.found # {} /\ is_expired(CHOOSE e \in loc[c].rv.found : TRUE, now).value
       THEN /\ stack' = [stack EXCEPT ![c] = Append(stack[c],
                            Frame("sweep_deleted", [loc[c] EXCEPT !.rv = Bool(TRUE)]))]
            /\ pc' = [pc EXCEPT ![c] = "del_call"]
            /\ loc' = [loc EXCEPT ![c] = Locals(loc[c].level, loc[c].id, {})]
            /\ UNCHANGED ret
       ELSE Goto(c, "sweep_file", [loc[c] EXCEPT !.rv = Bool(TRUE)])
    /\ UNCHANGED <<storeVars, now, nputs, last, lock, call>>

\* clean_expired line 254: `cleaned += 1`
SweepDeleted(c) ==
    /\ pc[c] = "sweep_deleted"
    /\ Goto(c, "sweep_file", [loc[c] EXCEPT !.cleaned = loc[c].cleaned + 1, !.rv = Bool(TRUE)])
    /\ UNCHANGED <<storeVars, now, nputs, last, lock, call>>

\* a second passes while the callers run
TickConc ==
    /\ now < MaxTime
    /\ now' = now + 1
    /\ UNCHANGED <<storeVars, nputs, last, threadVars>>

\* the steps of an operation under way
Step(c) ==
    \/ SaveLock(c) \/ SaveWrite(c)
    \/ IdxLoad(c) \/ IdxLock(c) \/ IdxWrite(c)
    \/ LoadRead(c) \/ LoadDeleted(c)
    \/ DelCall(c) \/ DelLoaded(c) \/ DelExists(c) \/ DelUnlink(c)
    \/ SweepGlob(c) \/ SweepFile(c) \/ SweepLoaded(c) \/ SweepDeleted(c)

NextConc ==
    \/ \E c \in Callers : \E op \in ConcCalls(now) : Start(c, op)
    \/ \E c \in Callers : Step(c)
    \/ TickConc

\* the clock when the two callers start: one second before the last one
ConcStart == MaxTime - 1

\* the stores the callers find: empty, or holding one indexed entry with a
\* ttl of one second written a second before they start (it expires when
\* the clock reaches MaxTime)
ConcStores ==
    {EmptyStore} \cup
        {save_entry(EmptyStore, e).st :
            e \in {p \in Pool(ConcStart - 1) : p.ttl = 1 /\ p.level = "IMMEDIATE"}}

InitConc ==
    /\ \E st \in ConcStores :
          /\ records = st.records
          /\ sessions = st.sessions
          /\ tags = st.tags
          /\ sources = st.sources
    /\ now = ConcStart
    /\ nputs = 0
    /\ last = Call("none", {}, {}, TRUE, 0)
    /\ ThreadInit

SpecConc == InitConc /\ [][NextConc]_vars

\* every operation under way keeps taking steps (each caller is a thread the
\* interpreter keeps scheduling)
SpecConcFair == SpecConc /\ \A c \in Callers : WF_vars(Step(c))

----------------------------------------------------------------------------
(* Notions the properties use *)

\* the entry of the record file at (level, id), which exists
EntryAt(level, id) == EntryOfDict(Document(Cur, level, id))

\* the data model's liveness: no ttl, or now <= created_at + ttl_seconds
LiveAt(entry, clock) == entry.ttl = NoTtl \/ clock <= entry.timestamp.t + entry.ttl

\* id occurs in some list of the index
Indexed(index, id) == \E k \in DOMAIN index : InList(index[k], id)

\* id occurs in no list of the three indices of store st
Unindexed(st, id) ==
    ~Indexed(st.sessions, id) /\ ~Indexed(st.tags, id) /\ ~Indexed(st.sources, id)

\* entry is filed under all of its keys in store st
FullyIndexed(st, entry) ==
    /\ HasSession(entry) => InList(IndexGet(st.sessions, entry.source.session), entry.id)
    /\ \A n \in 1..Len(meta_tags(entry)) :
          InList(IndexGet(st.tags, meta_tags(entry)[n]), entry.id)
    /\ InList(IndexGet(st.sources, source_key(entry)), entry.id)

\* some level holds a record of this id whose entry satisfies P
RecordWith(id, P(_)) ==
    \E level \in Levels : Exists(Cur, level, id) /\ P(EntryAt(level, id))

----------------------------------------------------------------------------
(* Properties of the store with one caller (Spec) *)

\* C1 -- index soundness: in every state reached by put, delete, get and
\* sweep, every id filed under a session, tag or source key belongs to a
\* record, at some level, whose entry carries that very key. (The claim asks,
\* on top of this, that get returns that entry as live.)
IndexSoundness ==
    /\ \A k \in DOMAIN sessions : \A n \in 1..Len(sessions[k]) :
          RecordWith(sessions[k][n], LAMBDA e : e.source.session = k)
    /\ \A k \in DOMAIN tags : \A n \in 1..Len(tags[k]) :
          RecordWith(tags[k][n], LAMBDA e : InList(meta_tags(e), k))
    /\ \A k \in DOMAIN sources : \A n \in 1..Len(sources[k]) :
          RecordWith(sources[k][n], LAMBDA e : source_key(e) = k)

\* C2 -- index completeness with one caller: in every state reached by put,
\* delete, get and sweep, every record that exists and that is_expired does
\* not report expired has its id in the session index under its session
\* (when it has one), in the tag index under each of its tags and in the
\* source index under its source key.
IndexCompleteness ==
    \A level \in Levels, id \in Ids :
        (Exists(Cur, level, id) /\ ~is_expired(EntryAt(level, id), now).value)
            => FullyIndexed(Cur, EntryAt(level, id))

\* C2 witness: a delete has just run and left a live record with a session
\* and tags, filed under all its keys
IndexCompletenessWitness ==
    /\ last.op = "delete"
    /\ \E level \in Levels, id \in Ids :
          /\ Exists(Cur, level, id)
          /\ LiveAt(EntryAt(level, id), now)
          /\ HasSession(EntryAt(level, id))
          /\ meta_tags(EntryAt(level, id)) # <<>>
          /\ FullyIndexed(Cur, EntryAt(level, id))

\* C5 -- expire-on-read cleans the indices: a get of a record that exists and
\* that is_expired reports expired returns absent, and afterwards the record
\* is gone and its id is in no list of the session, tag or source index.
ExpireOnReadCleans ==
    [][\A level \in Levels, id \in Ids :
          (Get(level, id) /\ Exists(Cur, level, id)
                /\ is_expired(EntryAt(level, id), now).value)
            => /\ last'.found = {}
               /\ records'[get_file_path(level, id)] = {}
               /\ Unindexed(Store(records', sessions', tags', sources'), id)]_vars

\* C7 -- round trip and overwrite: a get of (e.level, e.id) right after a
\* successful put(e), e live by the data model's rule, returns an entry equal
\* to e in every field -- also when put(e) overwrote an earlier record of the
\* same (level, id).
RoundTripAndOverwrite ==
    [][\A level \in Levels, id \in Ids :
          (Get(level, id) /\ last.op = "put" /\ last.ok
                /\ \E e \in last.arg : e.level = level /\ e.id = id /\ LiveAt(e, now))
            => last'.found = last.arg]_vars

\* C8 -- expiry boundary of get: for a record with creation time c and a ttl
\* of t >= 1 seconds whose timestamp is_expired can compare, get at clock
\* value now returns the entry when now < c + t and absent when now >= c + t.
ExpiryBoundary ==
    [][\A level \in Levels, id \in Ids :
          (Get(level, id) /\ Exists(Cur, level, id)
                /\ EntryAt(level, id).ttl >= 1
                /\ ~is_expired(EntryAt(level, id), now).raised)
            => LET e == EntryAt(level, id)
               IN /\ now < e.timestamp.t + e.ttl => last'.found = {e}
                  /\ now >= e.timestamp.t + e.ttl => last'.found = {}]_vars

\* C9 -- ttl presence decides expiry: for every record, at every clock value,
\* whenever is_expired returns, it returns False if the ttl is None, and if
\* the ttl is an integer (0 included) it returns False exactly while
\* now <= created_at + ttl.
TtlPresenceDecidesExpiry ==
    \A level \in Levels, id \in Ids :
        Exists(Cur, level, id) =>
            LET e == EntryAt(level, id)
                exp == is_expired(e, now)
            IN ~exp.raised =>
                  /\ e.ttl = NoTtl => ~exp.value
                  /\ e.ttl # NoTtl => (~exp.value <=> now <= e.timestamp.t + e.ttl)

\* C10 -- delete postcondition: after delete(level, id) of a record that get
\* would return (it exists and is live), no other level holding a record of
\* that id, the record is gone and the id is in no list of the session, tag
\* or source index.
DeletePostcondition ==
    [][\A level \in Levels, id \in Ids :
          (Delete(level, id)
                /\ load_entry(Cur, level, id, now, 1).ret # {}
                /\ \A other \in Levels \ {level} : ~Exists(Cur, other, id))
            => /\ records'[get_file_path(level, id)] = {}
               /\ Unindexed(Store(records', sessions', tags', sources'), id)]_vars

Occurrences(list, x) == Cardinality({n \in 1..Len(list) : list[n] = x})

\* C12 -- idempotent indexing: in every state, under every key of the
\* session, tag and source index, each id occurs at most once.
IndexMembershipIsASet ==
    \A id \in Ids :
        /\ \A k \in DOMAIN sessions : Occurrences(sessions[k], id) <= 1
        /\ \A k \in DOMAIN tags : Occurrences(tags[k], id) <= 1
        /\ \A k \in DOMAIN sources : Occurrences(sources[k], id) <= 1

\* C15 -- sweep count: clean_expired returns the number of records it
\* removed, and when it has returned no level holds a record that is_expired
\* reports expired.
SweepCountsRemoved ==
    [][(last'.op = "sweep" /\ Sweep)
          => LET after == Store(records', sessions', tags', sources')
             IN /\ last'.cleaned =
                      Cardinality({p \in Paths : records[p] # {} /\ records'[p] = {}})
                /\ \A level \in Levels, id \in Ids :
                      Exists(after, level, id)
                          => ~is_expired(EntryOfDict(Document(after, level, id)), now).value]_vars

----------------------------------------------------------------------------
(* Properties of the queries (SpecApi) *)

\* the instant a timestamp string denotes, in tenths of a second
Instant(ts) == 10 * ts.t + ts.frac

\* C16 -- query ordering: the sequence query returns, for every combination
\* of arguments, is in descending order of creation time: no entry is
\* followed by one created later.
QueryOrdering ==
    (last.op = "query" /\ last.ok)
        => \A n \in 1..(Len(last.rows) - 1) :
              Instant(last.rows[n].timestamp) >= Instant(last.rows[n + 1].timestamp)

\* the index keys a tag of a query stands for: the keys that fit the glob
\* pattern when the tag has a '*', the identical key otherwise
KeysFor(tag) ==
    CASE tag = "T*" -> {"T1", "T2"}
      [] tag = "*1" -> {"T1"}
      [] OTHER -> {tag}

\* the ids filed under one of the keys the tags of the list stand for
Candidates(taglist) ==
    UNION {Range(IndexGet(tags, k)) :
              k \in UNION {KeysFor(taglist[n]) : n \in 1..Len(taglist)}}

\* the live entries of an id: those of the records it has, level by level,
\* that the data model's rule calls live
LiveEntries(id) ==
    {EntryAt(level, id) :
        level \in {l \in Levels : Exists(Cur, l, id) /\ LiveAt(EntryAt(l, id), now)}}

\* C17 -- tag lookup: query_by_tags(tags) returns one live entry for each id
\* that is filed under a key one of the tags stands for and has a live
\* record, returns nothing else, and returns no id twice.
TagLookup ==
    [][last'.op = "query_by_tags"
          => LET asked == CHOOSE q \in last'.arg : TRUE
                 result == last'.rows
             IN /\ {result[n].id : n \in 1..Len(result)}
                       = {id \in Candidates(asked.tags) : LiveEntries(id) # {}}
                /\ \A n \in 1..Len(result) : result[n] \in LiveEntries(result[n].id)
                /\ \A n, m \in 1..Len(result) : result[n].id = result[m].id => n = m]_vars

\* what a candidate id contributes: the entry of the first level, in the
\* order immediate, working, longterm, that holds a live record of it;
\* nothing when no level does
FirstLiveHit(id) ==
    LET live == {l \in 1..Len(MemoryLevel) :
                    /\ Exists(Cur, MemoryLevel[l], id)
                    /\ LiveAt(EntryAt(MemoryLevel[l], id), now)}
    IN IF live = {} THEN <<>>
       ELSE <<EntryAt(MemoryLevel[CHOOSE l \in live : \A k \in live : l <= k], id)>>

\* the contributions of a list of candidate ids, in the order of the list
RECURSIVE Hits(_)
Hits(ids) == IF ids = <<>> THEN <<>> ELSE FirstLiveHit(Head(ids)) \o Hits(Tail(ids))

\* C18 -- query resolution drops dangling ids: query_by_session and
\* query_by_tags raise nothing and return, for each candidate id, the entry of
\* the first level in the order immediate, working, longterm that holds a
\* live record of it, and nothing for an id whose record is missing or
\* expired at every level.
ResolutionDropsDangling ==
    [][/\ last'.op = "query_by_session"
             => /\ last'.ok
                /\ last'.rows =
                      Hits(IndexGet(sessions, (CHOOSE q \in last'.arg : TRUE).session))
       /\ last'.op = "query_by_tags"
             => /\ last'.ok
                /\ Range(last'.rows) =
                      UNION {Range(FirstLiveHit(id)) :
                                id \in Candidates((CHOOSE q \in last'.arg : TRUE).tags)}]_vars

\* C20 -- one level per id: after any sequence of puts and deletes every
\* entry id has a record in at most one level.
OneLevelPerId ==
    \A id \in Ids : Cardinality({level \in Levels : Exists(Cur, level, id)}) <= 1

\* get of the records named in `paths`, one after the other: the store then
RECURSIVE get_all(_, _, _)
get_all(st, paths, clock) ==
    IF paths = <<>> THEN st
    ELSE get_all(load_entry(st, Head(paths)[1], Head(paths)[2], clock, 1).st,
                 Tail(paths), clock)

\* list with its elements in the opposite order
Reverse(list) == [n \in 1..Len(list) |-> list[Len(list) + 1 - n]]

\* orders in which a caller can get every record of every level: level by
\* level, id by id, and both backwards
GetOrders ==
    LET by_level == [n \in 1..(Len(MemoryLevel) * Len(IdOrder)) |->
                        <<MemoryLevel[1 + ((n - 1) \div Len(IdOrder))],
                          IdOrder[1 + ((n - 1) % Len(IdOrder))]>>]
        by_id == [n \in 1..(Len(MemoryLevel) * Len(IdOrder)) |->
                     <<MemoryLevel[1 + ((n - 1) % Len(MemoryLevel))],
                       IdOrder[1 + ((n - 1) \div Len(MemoryLevel))]>>]
    IN {by_level, by_id, Reverse(by_level), Reverse(by_id)}

\* C22 -- the two expiry paths agree: from the same store and at the same
\* clock value, clean_expired and a get of every record of every level leave
\* the same records and the same session, tag and source indices.
ExpiryPathsAgree ==
    \A order \in GetOrders : get_all(Cur, order, now) = clean_expired(Cur, now).st

\* C22 witness: a record is past its expiry, and the sweep and the gets both
\* change the store, to the same store
ExpiryPathsAgreeWitness ==
    /\ \E level \in Levels, id \in Ids :
          /\ Exists(Cur, level, id)
          /\ is_expired(EntryAt(level, id), now).value
    /\ clean_expired(Cur, now).st # Cur
    /\ \A order \in GetOrders : get_all(Cur, order, now) = clean_expired(Cur, now).st

----------------------------------------------------------------------------
(* Properties of the unfiltered query (SpecScan) *)

\* the number of entries of the level in the list
CountAt(rows, level) == Cardinality({n \in 1..Len(rows) : rows[n].level = level})

\* the last call was query with neither session_id nor tags
Unfiltered ==
    /\ last.op = "query"
    /\ \E q \in last.arg : q.tags = NoTags /\ q.session = NoSession

\* C19 -- bounded unfiltered query: a query with neither session_id nor tags
\* returns a list, not an error, with at most RecencyBound entries of each
\* level and so at most three times RecencyBound entries, whatever the
\* number of records the levels hold.
BoundedUnfilteredQuery ==
    Unfiltered
        => /\ last.ok
           /\ \A level \in Levels : CountAt(last.rows, level) <= RecencyBound
           /\ Len(last.rows) <= Len(MemoryLevel) * RecencyBound

----------------------------------------------------------------------------
(* Properties of the store on a failing medium (SpecFault) *)

\* no level holds a record of the id
NoRecord(st, id) == \A level \in Levels : ~Exists(st, level, id)

\* C14 -- failure atomicity of put and delete: when the medium fails at one
\* step of a put of an entry whose id has no record and is in no index, or of
\* a delete of a record whose id no other level holds, the operation returns
\* False and leaves either the store as it was or the record in place with
\* its id in no index.
FailureAtomicity ==
    [][/\ \A entry \in Pool(now), fault \in {"record"} \cup IndexFaults :
             (last'.op = "put" /\ PutFault(entry, fault)
                   /\ NoRecord(Cur, entry.id) /\ Unindexed(Cur, entry.id))
               => /\ ~last'.ok
                  /\ \/ UNCHANGED storeVars
                     \/ /\ records'[get_file_path(entry.level, entry.id)] # {}
                        /\ Unindexed(Store(records', sessions', tags', sources'), entry.id)
       /\ \A level \in Levels, id \in Ids, fault \in {"read", "unlink"} \cup IndexFaults :
             (last'.op = "delete" /\ DeleteFault(level, id, fault)
                   /\ \A other \in Levels \ {level} : ~Exists(Cur, other, id))
               => /\ ~last'.ok
                  /\ \/ UNCHANGED storeVars
                     \/ /\ records'[get_file_path(level, id)] # {}
                        /\ Unindexed(Store(records', sessions', tags', sources'), id)]_vars

----------------------------------------------------------------------------
(* Properties of the store with two callers (SpecConc) *)

\* both callers have returned from their operation
BothDone == \A c \in Callers : pc[c] = "done"

\* Two callers, and once both have returned, deletes by one caller: the
\* stores that concurrent operations leave are the stores a later delete finds.
NextConcThenDelete ==
    \/ NextConc
    \/ BothDone /\ \E level \in Levels, id \in Ids : Delete(level, id)

SpecConcThenDelete == InitConc /\ [][NextConcThenDelete]_vars

\* C3 -- concurrent puts lose no index update: when the two callers have put
\* two entries of distinct id and both puts returned True, then for every
\* session, tag and source key the two entries share, both ids are in that
\* key's list.
ConcurrentPutsIndexed ==
    (BothDone /\ call["c1"].op = "put" /\ call["c2"].op = "put"
        /\ call["c1"].id # call["c2"].id
        /\ ret["c1"] = {Bool(TRUE)} /\ ret["c2"] = {Bool(TRUE)})
    => LET a == CHOOSE e \in call["c1"].entry : TRUE
           b == CHOOSE e \in call["c2"].entry : TRUE
           both(list) == InList(list, a.id) /\ InList(list, b.id)
       IN /\ (HasSession(a) /\ a.source.session = b.source.session)
                 => both(IndexGet(sessions, a.source.session))
          /\ \A n \in 1..Len(meta_tags(a)) :
                 InList(meta_tags(b), meta_tags(a)[n])
                     => both(IndexGet(tags, meta_tags(a)[n]))
          /\ source_key(a) = source_key(b) => both(IndexGet(sources, source_key(a)))

\* the stores put(e) and delete(e.level, e.id) leave when one runs after the
\* other, from store st0, the delete reading the clock at any value
Sequential(st0, e) ==
    {delete_entry(save_entry(st0, e).st, e.level, e.id, t, 1).st : t \in ConcStart..MaxTime}
        \cup {save_entry(delete_entry(st0, e.level, e.id, t, 1).st, e).st : t \in ConcStart..MaxTime}

\* C4 -- put and delete are mutually exclusive as whole operations: when one
\* caller has run put(e) and the other delete(e.level, e.id), the store they
\* leave is one that the two operations leave in some sequential order.
PutDeleteSerializable ==
    \A c \in Callers, d \in Callers :
        (BothDone /\ call[c].op = "put" /\ call[d].op = "delete"
            /\ call[d].level = call[c].level /\ call[d].id = call[c].id)
        => \E st0 \in ConcStores : \E e \in call[c].entry : Cur \in Sequential(st0, e)

\* some key of the entry is a key of its index whose list does not hold the id
MissesAKey(st, entry) ==
    \/ /\ HasSession(entry)
       /\ entry.source.session \in DOMAIN st.sessions
       /\ ~InList(st.sessions[entry.source.session], entry.id)
    \/ \E n \in 1..Len(meta_tags(entry)) :
          /\ meta_tags(entry)[n] \in DOMAIN st.tags
          /\ ~InList(st.tags[meta_tags(entry)[n]], entry.id)
    \/ /\ source_key(entry) \in DOMAIN st.sources
       /\ ~InList(st.sources[source_key(entry)], entry.id)

\* under key k the id has one occurrence less than before, or none as before
OneLess(before, after, k, id) ==
    LET n == Occurrences(IndexGet(before, k), id)
    IN Occurrences(IndexGet(after, k), id) = IF n = 0 THEN 0 ELSE n - 1

\* C13 -- unindexing a missing id is a no-op: a delete of a record that
\* load_entry returns, one of whose keys is in its index with a list that does
\* not hold the id, returns True, removes the record, and takes one
\* occurrence of the id out of the list of every key that holds it.
UnindexMissingIsNoOp ==
    [][\A level \in Levels, id \in Ids :
          (last'.op = "delete" /\ Delete(level, id)
                /\ \E e \in load_entry(Cur, level, id, now, 1).ret : MissesAKey(Cur, e))
            => LET e == CHOOSE e \in load_entry(Cur, level, id, now, 1).ret : TRUE
               IN /\ last'.ok
                  /\ records'[get_file_path(level, id)] = {}
                  /\ HasSession(e) => OneLess(sessions, sessions', e.source.session, id)
                  /\ \A n \in 1..Len(meta_tags(e)) :
                        OneLess(tags, tags', meta_tags(e)[n], id)
                  /\ OneLess(sources, sources', source_key(e), id)]_vars

\* C6 -- every store operation terminates: an operation that has started
\* returns, whatever the other caller does; and no caller requests the lock
\* while holding it.
EveryOperationTerminates ==
    /\ \A c \in Callers : (pc[c] # "idle") ~> (pc[c] = "done")
    /\ [](\A c \in Callers : pc[c] \in {"save_lock", "idx_lock"} => lock # {c})

\* C6 witness: a get or delete of an expired record has gone through
\* load_entry and delete_entry down to the last frame the interpreter
\* allows, where load_entry finds the record still there and still expired
EveryOperationTerminatesWitness ==
    \E c \in Callers :
        /\ call[c].op \in {"get", "delete"}
        /\ pc[c] = "load_read"
        /\ Depth(c) = RecursionLimit
        /\ Exists(Cur, loc[c].level, loc[c].id)
        /\ is_expired(EntryAt(loc[c].level, loc[c].id), now).value

----------------------------------------------------------------------------
(* Properties of DistributedMemoryAPI (SpecCtx) *)

\* the operations of the API that write to the store
ApiWrites ==
    {"create_context", "update_focus", "add_to_working_set", "save_pattern", "create_handoff"}

LiveContexts(session_id, clock) ==
    {entry \in {EntryAt(path[1], path[2]) :
                   path \in {p \in Levels \X Ids : Exists(Cur, p[1], p[2])}} :
        /\ entry.data.type = "context"
        /\ entry.source.session = session_id
        /\ LiveAt(entry, clock)}

NoDuplicateResults ==
    \A session_id \in ApiSessions :
        \A rows \in {query_by_session(Cur, session_id, now, 2).ret} :
            \A n, m \in 1..Len(rows) : rows[n].id = rows[m].id => n = m

====
